---- MODULE Spec2Model ----
(***************************************************************************)
(* Model of the zipkin input plugin's service lifecycle                    *)
(* (plugins/inputs/zipkin/zipkin.go): the caller thread issuing Start and  *)
(* Stop, the worker goroutines launched by Start, the wait groups and the  *)
(* http.Server instances they share.                                       *)
(***************************************************************************)
EXTENDS Integers, Sequences, FiniteSets, TLC

\* ---------------------------------------------------------------- bounds
MaxStarts == 3      \* Start calls (hence workers and wait groups) per run
MaxStops  == 2      \* Stop calls per run
MaxConns  == 1      \* in-flight requests per server
MaxFreeStarts == 2  \* Start calls per run when calls come in any order

\* ------------------------------------------------------ program constants
DefaultPort == 9411
DefaultRoute == "/api/v1/spans"
DefaultShutdownTimeout == 5

Nil == 0
Workers == 1..MaxStarts          \* worker i is the goroutine of the i-th Start;
                                 \* wait group i is that Start's local wg;
                                 \* server i is the one worker i constructs
\* a nil Handler interface value, and a Handler configured before Start
NoHandler == [kind |-> "nil", path |-> "", registerFails |-> FALSE]
\* Handler implementations differ in whether their Register returns an error
CustomHandlers ==
    {[kind |-> "custom", path |-> "", registerFails |-> f] : f \in BOOLEAN}

\* configuration values the plugin may be loaded with
ServiceAddresses == {"", "localhost"}
Ports == {DefaultPort, 80}
Paths == {DefaultRoute, "/spans"}

\* ------------------------------------------------------------ pure helpers
Digit(d) ==
    CASE d = 0 -> "0" [] d = 1 -> "1" [] d = 2 -> "2" [] d = 3 -> "3"
      [] d = 4 -> "4" [] d = 5 -> "5" [] d = 6 -> "6" [] d = 7 -> "7"
      [] d = 8 -> "8" [] OTHER -> "9"

RECURSIVE Utoa(_)
Utoa(n) == IF n < 10 THEN Digit(n) ELSE Utoa(n \div 10) \o Digit(n % 10)

\* strconv.Itoa
Itoa(n) == IF n < 0 THEN "-" \o Utoa(0 - n) ELSE Utoa(n)

\* the Addr the worker gives a server it constructs
ServerAddr(cfg) == ":" \o Itoa(cfg.Port)

\* the address the configuration names: host/interface together with port
ConfiguredAddr(cfg) == cfg.ServiceAddress \o ":" \o Itoa(cfg.Port)

NewSpanHandler(path) ==
    [kind |-> "span", path |-> path, registerFails |-> FALSE]

\* a Start that installs the default Handler without testing for one
StartHandlerAlways(cfg) == NewSpanHandler(cfg.Path)

\* the Handler z holds after the first statement of Start
StartHandler(cfg) ==
    IF cfg.handler = NoHandler THEN NewSpanHandler(cfg.Path) ELSE cfg.handler

\* the value the registered factory returns
NewZipkin ==
    [ServiceAddress |-> "", Port |-> DefaultPort, Path |-> DefaultRoute,
     handler |-> NoHandler, server |-> Nil, waitGroup |-> Nil]

NoServer ==
    [made |-> FALSE, Addr |-> "", Handler |-> Nil, inShutdown |-> FALSE,
     listening |-> FALSE, conns |-> 0]

\* ------------------------------------------------------------------ state
VARIABLES
    z,            \* the Zipkin struct
    callerPc,     \* position of the thread that calls Start and Stop
    calls,        \* the calls issued so far, in order
    startResult,  \* return value of the last Start that returned
    stopWG,       \* receiver of the deferred z.waitGroup.Wait() of Stop
    stopSrv,      \* receiver of z.server.Shutdown(ctx) in Stop
    panicking,    \* a panic is in flight in Stop
    ctxLeft,      \* time left before Stop's context expires
    shutdownErr,  \* what the last Shutdown call returned
    crashed,      \* the process died of an unrecovered panic
    wgCount,      \* counter of each wait group
    wpc,          \* position of each worker goroutine
    wRouter,      \* router each worker constructed
    wRegErr,      \* Register returned an error to this worker
    wSrv,         \* receiver of this worker's ListenAndServe call
    wErr,         \* what ListenAndServe returned to this worker
    listenCalls,  \* ListenAndServe calls made by each worker
    reports,      \* acc.AddError calls made by each worker
    servers       \* the http.Server instances

vars == <<z, callerPc, calls, startResult, stopWG, stopSrv, panicking, ctxLeft,
          shutdownErr, crashed, wgCount, wpc, wRouter, wRegErr, wSrv, wErr,
          listenCalls, reports, servers>>

callerVars == <<callerPc, calls, startResult, stopWG, stopSrv, panicking,
                ctxLeft, shutdownErr>>
workerVars == <<wpc, wRouter, wRegErr, wSrv, wErr, listenCalls, reports>>

NumStarts == Cardinality({i \in 1..Len(calls) : calls[i] = "start"})
NumStops  == Cardinality({i \in 1..Len(calls) : calls[i] = "stop"})

\* the host starts a service input that it has not started, or that it has
\* stopped since: no Start follows a Start without a Stop in between
CanStart == IF calls = <<>> THEN TRUE ELSE calls[Len(calls)] = "stop"

Live(w) == wpc[w] \notin {"none", "exited"}

Init ==
    /\ \E a \in ServiceAddresses, p \in Ports, r \in Paths,
          h \in {NoHandler} \cup CustomHandlers :
          z = [NewZipkin EXCEPT !.ServiceAddress = a, !.Port = p, !.Path = r,
                                !.handler = h]
    /\ callerPc = "idle"
    /\ calls = <<>>
    /\ startResult = "none"
    /\ stopWG = Nil
    /\ stopSrv = Nil
    /\ panicking = FALSE
    /\ ctxLeft = 0
    /\ shutdownErr = "none"
    /\ crashed = FALSE
    /\ wgCount = [g \in Workers |-> 0]
    /\ wpc = [w \in Workers |-> "none"]
    /\ wRouter = [w \in Workers |-> Nil]
    /\ wRegErr = [w \in Workers |-> FALSE]
    /\ wSrv = [w \in Workers |-> Nil]
    /\ wErr = [w \in Workers |-> "none"]
    /\ listenCalls = [w \in Workers |-> 0]
    /\ reports = [w \in Workers |-> 0]
    /\ servers = [s \in Workers |-> NoServer]

\* ------------------------------------------------------------------ Start
\* Start up to and including the go statement: the handler default, the
\* fresh wait group stored in z.waitGroup, the goroutine launched.
StartLaunch ==
    /\ ~crashed
    /\ callerPc = "idle"
    /\ NumStarts < MaxStarts
    /\ CanStart
    /\ LET n == NumStarts + 1 IN
         /\ z' = [z EXCEPT !.handler = StartHandler(z), !.waitGroup = n]
         /\ wpc' = [wpc EXCEPT ![n] = "spawned"]
    /\ calls' = Append(calls, "start")
    /\ callerPc' = "start_return"
    /\ UNCHANGED <<startResult, stopWG, stopSrv, panicking, ctxLeft,
                   shutdownErr, crashed, wgCount, wRouter, wRegErr, wSrv, wErr,
                   listenCalls, reports, servers>>

\* a Start that waits for its worker's listen and returns its error
StartReturnWaits ==
    /\ ~crashed
    /\ callerPc = "start_return"
    /\ wpc[NumStarts] \in {"serving", "done", "exited"}
    /\ startResult' = IF wErr[NumStarts] = "bind" THEN "err" ELSE "nil"
    /\ callerPc' = "idle"
    /\ UNCHANGED <<z, calls, stopWG, stopSrv, panicking, ctxLeft, shutdownErr,
                   crashed, wgCount, workerVars, servers>>

\* return nil
StartReturn ==
    /\ ~crashed
    /\ callerPc = "start_return"
    /\ startResult' = "nil"
    /\ callerPc' = "idle"
    /\ UNCHANGED <<z, calls, stopWG, stopSrv, panicking, ctxLeft, shutdownErr,
                   crashed, wgCount, workerVars, servers>>

\* ------------------------------------------------------------------- Stop
\* Stop up to the start of z.server.Shutdown(ctx): the context is created,
\* the deferred Wait captures z.waitGroup, z.server is read.  Shutdown on a
\* nil server is a nil dereference: the panic runs the deferred calls.
\* Otherwise Shutdown marks the server as shutting down and closes its
\* listener, and returns at once if no request is in flight.
StopShutdown ==
    /\ ~crashed
    /\ callerPc = "idle"
    /\ NumStops < MaxStops
    /\ calls' = Append(calls, "stop")
    /\ stopWG' = z.waitGroup
    /\ stopSrv' = z.server
    /\ IF z.server = Nil
       THEN /\ panicking' = TRUE
            /\ shutdownErr' = "none"
            /\ ctxLeft' = 0
            /\ callerPc' = "stop_wait"
            /\ UNCHANGED servers
       ELSE /\ panicking' = FALSE
            /\ servers' = [servers EXCEPT ![z.server].inShutdown = TRUE,
                                          ![z.server].listening = FALSE]
            /\ IF servers[z.server].conns = 0
               THEN /\ shutdownErr' = "nil"
                    /\ ctxLeft' = 0
                    /\ callerPc' = "stop_wait"
               ELSE /\ shutdownErr' = "none"
                    /\ ctxLeft' = DefaultShutdownTimeout
                    /\ callerPc' = "shutdown_poll"
    /\ UNCHANGED <<z, startResult, crashed, wgCount, workerVars>>

\* time passes while Shutdown polls for the in-flight requests to finish
Tick ==
    /\ ~crashed
    /\ callerPc = "shutdown_poll"
    /\ ctxLeft > 0
    /\ ctxLeft' = ctxLeft - 1
    /\ UNCHANGED <<z, callerPc, calls, startResult, stopWG, stopSrv, panicking,
                   shutdownErr, crashed, wgCount, workerVars, servers>>

\* Shutdown returns: nil once no request is in flight, the context's error
\* once the context has expired.  It closes no connection that is in use.
ShutdownReturn ==
    /\ ~crashed
    /\ callerPc = "shutdown_poll"
    /\ \/ servers[stopSrv].conns = 0 /\ shutdownErr' = "nil"
       \/ servers[stopSrv].conns > 0 /\ ctxLeft = 0 /\ shutdownErr' = "deadline"
    /\ callerPc' = "stop_wait"
    /\ ctxLeft' = 0
    /\ UNCHANGED <<z, calls, startResult, stopWG, stopSrv, panicking, crashed,
                   wgCount, workerVars, servers>>

\* a Stop that sets z.server to nil once it has joined the worker
StopWaitClears ==
    /\ ~crashed
    /\ callerPc = "stop_wait"
    /\ IF stopWG = Nil
       THEN crashed' = TRUE /\ UNCHANGED <<callerPc, z>>
       ELSE /\ wgCount[stopWG] = 0
            /\ IF panicking
               THEN crashed' = TRUE /\ UNCHANGED <<callerPc, z>>
               ELSE /\ callerPc' = "idle"
                    /\ z' = [z EXCEPT !.server = Nil]
                    /\ UNCHANGED crashed
    /\ UNCHANGED <<calls, startResult, stopWG, stopSrv, panicking, ctxLeft,
                   shutdownErr, wgCount, workerVars, servers>>

\* the deferred calls of Stop: z.waitGroup.Wait() on the captured receiver
\* (a nil receiver panics), then cancel(); a panic in flight then ends the
\* process, otherwise Stop returns.
StopWait ==
    /\ ~crashed
    /\ callerPc = "stop_wait"
    /\ IF stopWG = Nil
       THEN crashed' = TRUE /\ UNCHANGED callerPc
       ELSE /\ wgCount[stopWG] = 0
            /\ IF panicking
               THEN crashed' = TRUE /\ UNCHANGED callerPc
               ELSE callerPc' = "idle" /\ UNCHANGED crashed
    /\ UNCHANGED <<z, calls, startResult, stopWG, stopSrv, panicking, ctxLeft,
                   shutdownErr, wgCount, workerVars, servers>>

\* ----------------------------------------------------------------- worker
\* wg.Add(1); defer wg.Done()
WorkerAdd(w) ==
    /\ ~crashed
    /\ wpc[w] = "spawned"
    /\ wgCount' = [wgCount EXCEPT ![w] = @ + 1]
    /\ wpc' = [wpc EXCEPT ![w] = "listen_entry"]
    /\ UNCHANGED <<z, callerVars, crashed, wRouter, wRegErr, wSrv, wErr,
                   listenCalls, reports, servers>>

\* a Listen that constructs a server without testing z.server
ListenRegisterAlways(w) ==
    /\ ~crashed
    /\ wpc[w] = "listen_entry"
    /\ wRouter' = [wRouter EXCEPT ![w] = w]
    /\ wRegErr' = [wRegErr EXCEPT ![w] = z.handler.registerFails]
    /\ wpc' = [wpc EXCEPT ![w] = "new_server"]
    /\ UNCHANGED <<z, callerVars, crashed, wgCount, wSrv, wErr, listenCalls,
                   reports, servers>>

\* Listen up to the test of z.server: the fresh router, the converter,
\* z.handler.Register(router, converter), whose result is discarded, and
\* if z.server == nil
ListenRegister(w) ==
    /\ ~crashed
    /\ wpc[w] = "listen_entry"
    /\ wRouter' = [wRouter EXCEPT ![w] = w]
    /\ wRegErr' = [wRegErr EXCEPT ![w] = z.handler.registerFails]
    /\ wpc' = [wpc EXCEPT ![w] = IF z.server = Nil THEN "new_server"
                                                   ELSE "listen"]
    /\ UNCHANGED <<z, callerVars, crashed, wgCount, wSrv, wErr, listenCalls,
                   reports, servers>>

\* z.server = &http.Server{Addr: ":" + strconv.Itoa(z.Port), Handler: router}
ListenNewServer(w) ==
    /\ ~crashed
    /\ wpc[w] = "new_server"
    /\ servers' = [servers EXCEPT ![w] =
                     [NoServer EXCEPT !.made = TRUE, !.Addr = ServerAddr(z),
                                      !.Handler = wRouter[w]]]
    /\ z' = [z EXCEPT !.server = w]
    /\ wpc' = [wpc EXCEPT ![w] = "listen"]
    /\ UNCHANGED <<callerVars, crashed, wgCount, wRouter, wRegErr, wSrv, wErr,
                   listenCalls, reports>>

\* an address can be bound while no server of the process listens on it
CanBind(s) ==
    \A t \in Workers : ~(servers[t].listening /\ servers[t].Addr = servers[s].Addr)

\* a Listen that does not report the server-closed error of a graceful stop
AddErrorSkipClosed(w, err) ==
    IF err \notin {"nil", "closed"} THEN [reports EXCEPT ![w] = @ + 1]
                                    ELSE reports

\* if err := ...; err != nil { acc.AddError(...) }: the reports after a
\* worker's ListenAndServe has returned err
AddError(w, err) ==
    IF err # "nil" THEN [reports EXCEPT ![w] = @ + 1] ELSE reports

\* a Listen that calls ListenAndServe again after it has returned
AfterServeRetry == "listen"

\* where Listen goes once ListenAndServe has returned: to its end
AfterServe == "done"

\* z.server.ListenAndServe(): the server-closed error on a server that is
\* shutting down, the bind error when the listen fails, otherwise the accept
\* loop runs; an error returned is reported
ListenAndServe(w) ==
    /\ ~crashed
    /\ wpc[w] = "listen"
    /\ LET s == z.server IN
         /\ wSrv' = [wSrv EXCEPT ![w] = s]
         /\ listenCalls' = [listenCalls EXCEPT ![w] = @ + 1]
         /\ IF servers[s].inShutdown
            THEN /\ wErr' = [wErr EXCEPT ![w] = "closed"]
                 /\ reports' = AddError(w, "closed")
                 /\ wpc' = [wpc EXCEPT ![w] = AfterServe]
                 /\ UNCHANGED servers
            ELSE \/ /\ wErr' = [wErr EXCEPT ![w] = "bind"]
                    /\ reports' = AddError(w, "bind")
                    /\ wpc' = [wpc EXCEPT ![w] = AfterServe]
                    /\ UNCHANGED servers
                 \/ /\ CanBind(s)
                    /\ servers' = [servers EXCEPT ![s].listening = TRUE]
                    /\ wpc' = [wpc EXCEPT ![w] = "serving"]
                    /\ UNCHANGED <<wErr, reports>>
    /\ UNCHANGED <<z, callerVars, crashed, wgCount, wRouter, wRegErr>>

\* the accept loop ends: with the server-closed error once Shutdown has
\* closed the listener, or with the error of a failed accept, which closes
\* the listener; the error is reported
ServeReturn(w) ==
    /\ ~crashed
    /\ wpc[w] = "serving"
    /\ \/ /\ servers[wSrv[w]].inShutdown
          /\ wErr' = [wErr EXCEPT ![w] = "closed"]
          /\ reports' = AddError(w, "closed")
          /\ UNCHANGED servers
       \/ /\ ~servers[wSrv[w]].inShutdown
          /\ wErr' = [wErr EXCEPT ![w] = "accept"]
          /\ reports' = AddError(w, "accept")
          /\ servers' = [servers EXCEPT ![wSrv[w]].listening = FALSE]
    /\ wpc' = [wpc EXCEPT ![w] = AfterServe]
    /\ UNCHANGED <<z, callerVars, crashed, wgCount, wRouter, wRegErr, wSrv,
                   listenCalls>>

\* the deferred wg.Done(); the goroutine ends
WorkerDone(w) ==
    /\ ~crashed
    /\ wpc[w] = "done"
    /\ wgCount' = [wgCount EXCEPT ![w] = @ - 1]
    /\ wpc' = [wpc EXCEPT ![w] = "exited"]
    /\ UNCHANGED <<z, callerVars, crashed, wRouter, wRegErr, wSrv, wErr,
                   listenCalls, reports, servers>>

\* ------------------------------------------------------------ connections
\* a client request arrives at a listening server
AcceptConn(s) ==
    /\ ~crashed
    /\ servers[s].listening
    /\ servers[s].conns < MaxConns
    /\ servers' = [servers EXCEPT ![s].conns = @ + 1]
    /\ UNCHANGED <<z, callerVars, crashed, wgCount, workerVars>>

\* an in-flight request completes and its connection closes
FinishConn(s) ==
    /\ ~crashed
    /\ servers[s].conns > 0
    /\ servers' = [servers EXCEPT ![s].conns = @ - 1]
    /\ UNCHANGED <<z, callerVars, crashed, wgCount, workerVars>>

Next ==
    \/ StartLaunch
    \/ StartReturn
    \/ StopShutdown
    \/ Tick
    \/ ShutdownReturn
    \/ StopWait
    \/ \E w \in Workers : WorkerAdd(w)
    \/ \E w \in Workers : ListenRegister(w)
    \/ \E w \in Workers : ListenNewServer(w)
    \/ \E w \in Workers : ListenAndServe(w)
    \/ \E w \in Workers : ServeReturn(w)
    \/ \E w \in Workers : WorkerDone(w)
    \/ \E s \in Workers : AcceptConn(s)
    \/ \E s \in Workers : FinishConn(s)

Spec == Init /\ [][Next]_vars

\* The same program under a caller that issues Start and Stop in any order:
\* Start as StartLaunch, also directly after a Start.
StartLaunchAnyOrder ==
    /\ ~crashed
    /\ callerPc = "idle"
    /\ NumStarts < MaxFreeStarts
    /\ LET n == NumStarts + 1 IN
         /\ z' = [z EXCEPT !.handler = StartHandler(z), !.waitGroup = n]
         /\ wpc' = [wpc EXCEPT ![n] = "spawned"]
    /\ calls' = Append(calls, "start")
    /\ callerPc' = "start_return"
    /\ UNCHANGED <<startResult, stopWG, stopSrv, panicking, ctxLeft,
                   shutdownErr, crashed, wgCount, wRouter, wRegErr, wSrv, wErr,
                   listenCalls, reports, servers>>

NextAnyCalls ==
    \/ StartLaunchAnyOrder
    \/ StartReturn
    \/ StopShutdown
    \/ Tick
    \/ ShutdownReturn
    \/ StopWait
    \/ \E w \in Workers : WorkerAdd(w)
    \/ \E w \in Workers : ListenRegister(w)
    \/ \E w \in Workers : ListenNewServer(w)
    \/ \E w \in Workers : ListenAndServe(w)
    \/ \E w \in Workers : ServeReturn(w)
    \/ \E w \in Workers : WorkerDone(w)
    \/ \E s \in Workers : AcceptConn(s)
    \/ \E s \in Workers : FinishConn(s)

SpecAnyCalls == Init /\ [][NextAnyCalls]_vars

TypeOK ==
    /\ callerPc \in {"idle", "start_return", "shutdown_poll", "stop_wait"}
    /\ z.server \in {Nil} \cup Workers
    /\ z.waitGroup \in {Nil} \cup Workers
    /\ \A w \in Workers : wgCount[w] \in 0..1

\* ================================================================= claims
LastCall == calls[Len(calls)]
\* the latest call is a Stop that directly follows a Start
StopFollowsStart ==
    /\ Len(calls) >= 2
    /\ calls[Len(calls)] = "stop"
    /\ calls[Len(calls) - 1] = "start"
\* the worker launched by the latest Start
LastWorker == NumStarts

\* C1: when a Stop that follows a Start has returned, the worker launched by
\* that Start has exited (Listen returned, wg.Done run).
C1_NoWorkerOutlivesStop ==
    (StopFollowsStart /\ callerPc = "idle") => wpc[LastWorker] = "exited"

\* C2: a Stop issued right after a Start does not panic on a server that is
\* not yet constructed, does not crash, and once it has returned the worker
\* is gone.
C2_StopAfterStartCompletes ==
    StopFollowsStart =>
        /\ ~panicking
        /\ ~crashed
        /\ (callerPc = "idle" => ~Live(LastWorker))

\* C3: a Stop on a manager that was never started neither panics nor
\* crashes the process.
C3_StopBeforeStartIsSafe ==
    (NumStarts = 0 /\ NumStops > 0) => (~panicking /\ ~crashed)

\* C4: Start returns nil and nothing else, whatever its worker's listen
\* does, and its return never waits for a step of the worker: once the
\* goroutine is launched the return is enabled.
C4_StartFireAndForget ==
    /\ startResult \in {"none", "nil"}
    /\ (callerPc = "start_return" /\ ~crashed) => ENABLED StartReturn

\* Start has returned nil while the worker it launched has not run a step.
C4_Witness ==
    /\ callerPc = "idle"
    /\ calls = <<"start">>
    /\ startResult = "nil"
    /\ wpc[1] = "spawned"

\* C5: a worker whose ListenAndServe failed to bind has called it once, has
\* reported one error, is past its serve call for good, and a crash of the
\* process is never the worker's: it is the caller's panic in Stop.
C5_BindFailureReportedOnce ==
    /\ \A w \in Workers :
          wErr[w] = "bind" =>
              /\ listenCalls[w] = 1
              /\ reports[w] = 1
              /\ wpc[w] \in {"done", "exited"}
    /\ crashed => callerPc = "stop_wait"

\* A worker's bind failed, it reported once and exited; the process lives.
C5_Witness ==
    \E w \in Workers :
        /\ wErr[w] = "bind"
        /\ wpc[w] = "exited"
        /\ reports[w] = 1
        /\ ~crashed

\* C6: a worker whose Register call returned an error never constructs the
\* server and never calls ListenAndServe.
C6_RegisterFailureIsFatal ==
    \A w \in Workers :
        wRegErr[w] =>
            /\ ~servers[w].made
            /\ listenCalls[w] = 0
            /\ wpc[w] # "serving"

\* C7: after a Stop that shut a server down has returned, no connection of
\* that server is open.
C7_NoConnSurvivesStop ==
    (callerPc = "idle" /\ calls # <<>> /\ LastCall = "stop" /\ stopSrv # Nil)
        => servers[stopSrv].conns = 0

\* C8: every server the worker constructs listens on the configured
\* host/interface together with the configured port, and the factory's
\* manager has port 9411 and path /api/v1/spans.
C8_BindsConfiguredAddress ==
    /\ \A s \in Workers : servers[s].made => servers[s].Addr = ConfiguredAddr(z)
    /\ NewZipkin.Port = 9411
    /\ NewZipkin.Path = "/api/v1/spans"

\* C9: a configured Handler is never changed by any step; an absent Handler
\* is replaced only by Start, and then by the default Handler bound to the
\* configured path.
C9_HandlerDefaultedOnlyWhenAbsent ==
    [][ /\ z.handler # NoHandler => z'.handler = z.handler
        /\ z.handler = NoHandler =>
              IF callerPc = "idle" /\ callerPc' = "start_return"
              THEN z'.handler = NewSpanHandler(z.Path)
              ELSE z'.handler = NoHandler ]_vars

\* The default Handler installed by the first Start is still in place after
\* a worker has exited and a second Start has run.
C9_Witness ==
    /\ z.handler = NewSpanHandler(z.Path)
    /\ NumStarts >= 2
    /\ wpc[1] = "exited"

\* C10: at most one worker is live at any moment, and every live worker is
\* the one counted by the wait group the next Stop waits on.
C10_AtMostOneLiveWorker ==
    /\ Cardinality({w \in Workers : Live(w)}) <= 1
    /\ \A w \in Workers : Live(w) => z.waitGroup = w

\* C11: a worker that is serving serves with a server whose request handler
\* is the router this worker constructed and registered the Handler on.
C11_ServesOwnRouter ==
    \A w \in Workers :
        wpc[w] = "serving" => servers[wSrv[w]].Handler = wRouter[w]

C13_ShutdownBeforeWait ==
    (callerPc = "stop_wait" /\ NumStarts > 0) =>
        /\ shutdownErr # "none"
        /\ stopSrv # Nil
        /\ servers[stopSrv].inShutdown

\* C14: a worker reports no error before its serve call has returned and
\* exactly one once it has, whatever the serve call returned: the bind
\* error, the error of a failed accept, or the server-closed error of a
\* stop; the serve call never returns nil.
C14_OneErrorPerWorker ==
    \A w \in Workers :
        /\ wpc[w] \in {"none", "spawned", "listen_entry", "new_server",
                       "listen", "serving"} => reports[w] = 0
        /\ wpc[w] \in {"done", "exited"} =>
              /\ reports[w] = 1
              /\ wErr[w] \in {"bind", "accept", "closed"}

\* The only worker served a request, was stopped by Stop, reported the
\* server-closed error once and exited; Stop has returned.
C14_Witness ==
    /\ calls = <<"start", "stop">>
    /\ callerPc = "idle"
    /\ wpc[1] = "exited"
    /\ wErr[1] = "closed"
    /\ reports[1] = 1
    /\ servers[1].conns > 0

====
